---- MODULE Spec2Model ----
(***************************************************************************)
(* Interaction-weighted preference scoring of the odini mobile app:        *)
(* InteractionService (user_interactions), listingService (ratings),       *)
(* eventService (event_ratings, user_preferences).                         *)
(*                                                                         *)
(* Every service call is an async function.  JavaScript runs the code      *)
(* between two awaits without interruption, and the backend executes one   *)
(* request at a time, so one action of the model is one backend request    *)
(* together with the synchronous code that follows it up to the next       *)
(* request.  Calls in flight occupy slots; their steps interleave freely.  *)
(***************************************************************************)
EXTENDS Integers, Sequences, FiniteSets, Bags, TLC

VARIABLES
    env,            \* the deployment and the scenario: fixed by Init
    prefs,          \* table user_preferences, keyed by <<user_id, tag>>; scores
                    \* are kept in quarters of a point
    eventRatings,   \* table event_ratings: rows in insertion order, id = position
    ratings,        \* table ratings (listings): a sequence of rows
    interactions,   \* table user_interactions: a bag of rows (no order, no key)
    trips,          \* table trips (listings saved for later): a bag of rows
    userTrips,      \* table user_trips (events added to a trip): a bag of rows
    hints,          \* the refresh hints sent to the edge function 'recommendations': a bag
    calls,          \* the service calls in flight, one per slot
    ncalls,         \* number of calls started so far
    ledger          \* history: per key, sum of the deltas of completed updateUserPreferences

vars == <<env, prefs, eventRatings, ratings, interactions, trips, userTrips, hints, calls,
         ncalls, ledger>>

----------------------------------------------------------------------------
(* Bounds of the model *)

NumSlots == 2
MaxCalls == 2
MaxBatch == 2

Slots == 1..NumSlots

Null == "null"
Users == {"u1", "u2"}
Tags == {"t1", "t2"}
Events == {"e1", "e2"}
Listings == {"l1", "l2"}

PrefKeys == Users \X Tags

\* what table ratings is keyed by: the pair (user_id, listing_id); an id of
\* its own, with a unique constraint on the pair; an id of its own only
RatingsKeys == {"pair", "unique", "id"}

----------------------------------------------------------------------------
(* The catalog: read-only rows of tables events and listings *)

\* events.tags (text[]) and events.category; e2 has no tags array
EventRow(e) ==
    IF e = "e1" THEN [id |-> e, tags |-> <<"t1", "t2">>, hasTags |-> TRUE, category |-> "t1"]
                ELSE [id |-> e, tags |-> <<>>, hasTags |-> FALSE, category |-> "t2"]

\* listings.category: a listing has a category and no tags array, so its tags
\* are its category, as for an event without tags
ListingTags(l) == IF l = "l1" THEN <<"t1">> ELSE <<"t2">>

----------------------------------------------------------------------------
(* Helpers *)

RECURSIVE SumSeq(_)
SumSeq(q) == IF q = <<>> THEN 0 ELSE Head(q) + SumSeq(Tail(q))

Range(q) == {q[i] : i \in 1..Len(q)}

\* the sum of the values of a function with a finite domain
RECURSIVE SumOver(_)
SumOver(f) ==
    IF DOMAIN f = {} THEN 0
    ELSE LET x == CHOOSE y \in DOMAIN f : TRUE
         IN f[x] + SumOver([y \in DOMAIN f \ {x} |-> f[y]])

\* number of positions of q holding x
Occurrences(q, x) == Cardinality({i \in 1..Len(q) : q[i] = x})

\* outcomes of one backend request: it may fail only where the scenario allows
Outcomes == IF env.faults THEN {"ok", "error"} ELSE {"ok"}

\* outcomes of functions.invoke for a refresh hint: an answer, an error in the
\* answer, or a rejected promise
HintOutcomes == IF env.faults THEN {"ok", "error", "throw"} ELSE {"ok"}

\* a value of a response that is neither null nor an array, by its JavaScript
\* type; items are the elements when it is an array
Value(type) == [type |-> type, items |-> <<>>]

\* what the client holds of an invocation the engine has not answered
NoAnswer == [answered |-> FALSE, error |-> FALSE, data |-> FALSE,
             listings |-> Value("undefined")]

Idle == [op |-> "idle", pc |-> "idle", user |-> Null, target |-> Null, rating |-> 0,
         tags |-> <<>>, delta |-> 0, i |-> 0, newScore |-> 0, existing |-> 0,
         dir |-> Null, kind |-> Null, weight |-> 0, items |-> <<>>,
         avgSum |-> 0, avgCount |-> 0, res |-> Null,
         wrote |-> "none", hint |-> "none", invocations |-> 0,
         engine |-> NoAnswer, gateway |-> "none", cards |-> <<>>,
         before |-> EmptyBag, avg |-> "none", found |-> {},
         pre |-> [k \in PrefKeys |-> 0]]

\* the scores as a call finds them when it starts
Snapshot == [k \in PrefKeys |-> IF prefs[k].present THEN prefs[k].score ELSE 0]

Quiescent == \A s \in Slots : calls[s].pc \in {"idle", "done"}

\* a call starts in the lowest free slot (slots are interchangeable); without
\* concurrency it starts only when no other call is in flight
CanStart(s) ==
    /\ ncalls < MaxCalls
    /\ calls[s].pc = "idle"
    /\ \A r \in Slots : r < s => calls[r].pc # "idle"
    /\ env.conc \/ \A r \in Slots : calls[r].pc = "idle"

Score(u, t) == IF prefs[<<u, t>>].present THEN prefs[<<u, t>>].score ELSE 0

----------------------------------------------------------------------------
(* eventService.updateUserPreferences *)

\* ledger after a completed updateUserPreferences(u, tags, delta)
Credited(u, tags, delta) ==
    [k \in PrefKeys |->
        IF k[1] = u THEN ledger[k] + delta * Occurrences(tags, k[2]) ELSE ledger[k]]

\* what follows an updateUserPreferences that returned value: addRating and
\* addToTrip await it and drop the value, addRating goes on to getEventById
\* (line 821) and addToTrip returns true (line 852); a direct call returns the
\* value
AfterPreferences(c, value) ==
    IF c.op = "addRating" THEN [c EXCEPT !.pc = "getEventById"]
    ELSE IF c.op = "addToTrip" THEN [c EXCEPT !.pc = "done", !.res = "true"]
    ELSE [c EXCEPT !.pc = "done", !.res = value]

\* lines 726-728 and the first request of the loop; with no tags the function
\* returns at line 728, without a value
EnterPreferences(c, u, tags, delta) ==
    IF u = Null THEN [c EXCEPT !.pc = "done", !.res = "error: userId required"]
    ELSE IF tags = <<>> THEN AfterPreferences(c, "undefined")
    ELSE [c EXCEPT !.pc = "selectPreference", !.tags = tags, !.delta = delta, !.i = 1]

\* a direct call updateUserPreferences(userId, tags, delta)
updateUserPreferences(s, u, tags, delta) ==
    /\ CanStart(s)
    /\ calls' = [calls EXCEPT ![s] =
           EnterPreferences([Idle EXCEPT !.op = "updateUserPreferences", !.user = u,
                                         !.pre = Snapshot],
                            u, tags, delta)]
    /\ ncalls' = ncalls + 1
    /\ UNCHANGED <<env, userTrips, trips, prefs, eventRatings, ratings, interactions, hints, ledger>>

\* lines 734-747: select ... .single(), then currentScore and newScore.
\* A failed select leaves existing undefined, which the code reads as score 0.
SelectPreference(s) ==
    /\ calls[s].pc = "selectPreference"
    /\ \E out \in Outcomes :
         LET c == calls[s]
             row == prefs[<<c.user, c.tags[c.i]>>]
             currentScore == IF out = "ok" /\ row.present THEN row.score ELSE 0
         IN calls' = [calls EXCEPT ![s] =
                [c EXCEPT !.pc = "upsertPreference", !.newScore = currentScore + c.delta]]
    /\ UNCHANGED <<env, userTrips, trips, prefs, eventRatings, ratings, interactions, hints, ncalls, ledger>>

\* lines 749-759: upsert the new score, then the next tag or, after the last
\* one, return true
UpsertPreference(s) ==
    /\ calls[s].pc = "upsertPreference"
    /\ \E out \in Outcomes :
         LET c == calls[s] IN
         IF out = "ok"
         THEN /\ prefs' = [prefs EXCEPT ![<<c.user, c.tags[c.i]>>] =
                               [present |-> TRUE, score |-> c.newScore]]
              /\ IF c.i < Len(c.tags)
                 THEN /\ calls' = [calls EXCEPT ![s] =
                             [c EXCEPT !.pc = "selectPreference", !.i = c.i + 1]]
                      /\ UNCHANGED ledger
                 ELSE /\ calls' = [calls EXCEPT ![s] = AfterPreferences(c, "true")]
                      /\ ledger' = Credited(c.user, c.tags, c.delta)
         ELSE /\ calls' = [calls EXCEPT ![s] =
                     [c EXCEPT !.pc = "done", !.res = "error: upsert"]]
              /\ UNCHANGED <<prefs, ledger>>
    /\ UNCHANGED <<env, userTrips, trips, eventRatings, ratings, interactions, hints, ncalls>>

----------------------------------------------------------------------------
(* eventService.addRating *)

\* the ids of the rows of event_ratings of user u for event e
RatingRows(u, e) ==
    {i \in 1..Len(eventRatings) : eventRatings[i].user = u /\ eventRatings[i].event = e}

\* .single(): the row when exactly one matches; otherwise no data and an error
\* (PGRST116 for no row and for several rows)
Single(ids) == IF Cardinality(ids) = 1 THEN CHOOSE i \in ids : TRUE ELSE 0

computePreferenceDelta(rating, weight) == (rating - 3) * weight

\* x points as the model keeps scores: in quarters of a point, so that the
\* deltas of the code, 0.75 among them, are whole numbers
Points(x) == 4 * x

\* line 814: event.tags || (event.category ? [event.category] : [])
TagsOf(event) ==
    IF event.hasTags THEN event.tags
    ELSE IF event.category # Null THEN <<event.category>> ELSE <<>>

\* lines 775-782: the checks, then the first request
addRating(s, userId, eventId, rating) ==
    /\ CanStart(s)
    /\ LET c == [Idle EXCEPT !.op = "addRating", !.user = userId, !.target = eventId,
                             !.rating = rating, !.pre = Snapshot]
       IN calls' = [calls EXCEPT ![s] =
              IF eventId = Null THEN [c EXCEPT !.pc = "done", !.res = "error: eventId required"]
              ELSE IF rating = 0 THEN [c EXCEPT !.pc = "done", !.res = "error: rating required"]
              ELSE IF userId = Null THEN [c EXCEPT !.pc = "getCurrentUserId"]
              ELSE [c EXCEPT !.pc = "selectRating"]]
    /\ ncalls' = ncalls + 1
    /\ UNCHANGED <<env, userTrips, trips, prefs, eventRatings, ratings, interactions, hints, ledger>>

\* the first request of a call of eventService once the user is known
FirstRequest(op) ==
    CASE op = "addRating" -> "selectRating"
      [] op = "addToTrip" -> "insertUserTrip"
      [] op = "getUserPreferences" -> "selectPreferences"

\* lines 636-655 and 779-780: the id of the signed-in user, or null
getCurrentUserId(s) ==
    /\ calls[s].pc = "getCurrentUserId"
    /\ \E uid \in Users \cup {Null} :
         calls' = [calls EXCEPT ![s] =
             IF uid = Null
             THEN [calls[s] EXCEPT !.pc = "done", !.res = "error: user not authenticated"]
             ELSE [calls[s] EXCEPT !.pc = FirstRequest(calls[s].op), !.user = uid]]
    /\ UNCHANGED <<env, userTrips, trips, prefs, eventRatings, ratings, interactions, hints, ncalls, ledger>>

\* lines 784-796: look for the user's rating of the event; an error of the
\* lookup is not rethrown, the call goes on as if there were no row
SelectRating(s) ==
    /\ calls[s].pc = "selectRating"
    /\ \E out \in Outcomes :
         LET c == calls[s]
             existing == IF out = "ok" THEN Single(RatingRows(c.user, c.target)) ELSE 0
         IN calls' = [calls EXCEPT ![s] =
                [c EXCEPT !.existing = existing,
                          !.pc = IF existing # 0 THEN "updateRating" ELSE "insertRating"]]
    /\ UNCHANGED <<env, userTrips, trips, prefs, eventRatings, ratings, interactions, hints, ncalls, ledger>>

\* lines 797-802: update the row found, by id
UpdateRating(s) ==
    /\ calls[s].pc = "updateRating"
    /\ \E out \in Outcomes :
         LET c == calls[s] IN
         IF out = "ok"
         THEN /\ eventRatings' = [eventRatings EXCEPT ![c.existing].rating = c.rating]
              /\ calls' = [calls EXCEPT ![s] = [c EXCEPT !.pc = "selectEvent", !.wrote = "ok"]]
         ELSE /\ calls' = [calls EXCEPT ![s] =
                     [c EXCEPT !.pc = "done", !.res = "error: update", !.wrote = "error"]]
              /\ UNCHANGED eventRatings
    /\ UNCHANGED <<env, userTrips, trips, prefs, ratings, interactions, hints, ncalls, ledger>>

\* InsertRating that goes on to the preference update after a failed insert
InsertRatingSilent(s) ==
    /\ calls[s].pc = "insertRating"
    /\ \E out \in Outcomes :
         LET c == calls[s] IN
         IF out = "ok" /\ ~(env.unique /\ RatingRows(c.user, c.target) # {})
         THEN /\ eventRatings' = Append(eventRatings,
                     [user |-> c.user, event |-> c.target, rating |-> c.rating])
              /\ calls' = [calls EXCEPT ![s] = [c EXCEPT !.pc = "selectEvent", !.wrote = "ok"]]
         ELSE /\ calls' = [calls EXCEPT ![s] =
                     [c EXCEPT !.pc = "selectEvent", !.wrote = "error"]]
              /\ UNCHANGED eventRatings
    /\ UNCHANGED <<env, userTrips, trips, prefs, ratings, interactions, hints, ncalls, ledger>>

\* lines 803-807: insert a new row; where the table has a unique constraint on
\* (user_id, event_id) the insert of a second row for the pair is an error
InsertRating(s) ==
    /\ calls[s].pc = "insertRating"
    /\ \E out \in Outcomes :
         LET c == calls[s] IN
         IF out = "ok" /\ ~(env.unique /\ RatingRows(c.user, c.target) # {})
         THEN /\ eventRatings' = Append(eventRatings,
                     [user |-> c.user, event |-> c.target, rating |-> c.rating])
              /\ calls' = [calls EXCEPT ![s] = [c EXCEPT !.pc = "selectEvent", !.wrote = "ok"]]
         ELSE /\ calls' = [calls EXCEPT ![s] =
                     [c EXCEPT !.pc = "done", !.res = "error: insert", !.wrote = "error"]]
              /\ UNCHANGED eventRatings
    /\ UNCHANGED <<env, userTrips, trips, prefs, ratings, interactions, hints, ncalls, ledger>>

\* lines 809-818: the event's tags, the delta, and into updateUserPreferences
SelectEvent(s) ==
    /\ calls[s].pc = "selectEvent"
    /\ \E out \in Outcomes :
         LET c == calls[s] IN
         calls' = [calls EXCEPT ![s] =
             IF out = "ok"
             THEN EnterPreferences(c, c.user, TagsOf(EventRow(c.target)),
                                   computePreferenceDelta(c.rating, Points(1)))
             ELSE [c EXCEPT !.pc = "done", !.res = "error: event"]]
    /\ UNCHANGED <<env, userTrips, trips, prefs, eventRatings, ratings, interactions, hints, ncalls, ledger>>

\* getEventById averaging the caller's own ratings only
getEventByIdOwn(s) ==
    /\ calls[s].pc = "getEventById"
    /\ \E out \in Outcomes :
         LET c == calls[s]
             rows == SelectSeq(eventRatings,
                               LAMBDA r : r.event = c.target /\ r.user = c.user)
         IN calls' = [calls EXCEPT ![s] =
                IF out = "ok"
                THEN [c EXCEPT !.pc = "done", !.res = "ok", !.avg = "ok",
                               !.avgSum = SumSeq([i \in 1..Len(rows) |-> rows[i].rating]),
                               !.avgCount = Len(rows)]
                ELSE [c EXCEPT !.pc = "done", !.res = "error: getEventById",
                               !.avg = "error"]]
    /\ UNCHANGED <<env, userTrips, trips, prefs, eventRatings, ratings, interactions, hints, ncalls, ledger>>

\* lines 697-709 and 821: the event with its ratings; the average is
\* avgSum / avgCount (null when there is no rating)
getEventById(s) ==
    /\ calls[s].pc = "getEventById"
    /\ \E out \in Outcomes :
         LET c == calls[s]
             rows == SelectSeq(eventRatings, LAMBDA r : r.event = c.target)
         IN calls' = [calls EXCEPT ![s] =
                IF out = "ok"
                THEN [c EXCEPT !.pc = "done", !.res = "ok", !.avg = "ok",
                               !.avgSum = SumSeq([i \in 1..Len(rows) |-> rows[i].rating]),
                               !.avgCount = Len(rows)]
                ELSE [c EXCEPT !.pc = "done", !.res = "error: getEventById",
                               !.avg = "error"]]
    /\ UNCHANGED <<env, userTrips, trips, prefs, eventRatings, ratings, interactions, hints, ncalls, ledger>>

----------------------------------------------------------------------------
(* listingService.updateListingRating *)

\* line 180: no check of the input, then the first request
updateListingRating(s, userId, listingId, rating) ==
    /\ CanStart(s)
    /\ calls' = [calls EXCEPT ![s] =
           [Idle EXCEPT !.op = "updateListingRating", !.user = userId,
                        !.target = listingId, !.rating = rating, !.pre = Snapshot,
                        !.pc = "upsertRating"]]
    /\ ncalls' = ncalls + 1
    /\ UNCHANGED <<env, userTrips, trips, prefs, eventRatings, ratings, interactions, hints, ledger>>

\* the ids of the rows of ratings of user u for listing l
ListingRatingRows(u, l) ==
    {i \in 1..Len(ratings) : ratings[i].user = u /\ ratings[i].listing = l}

\* lines 183-192: the upsert names no conflict target and its row carries no
\* id, so the database resolves conflicts on the primary key of ratings.  With
\* (user_id, listing_id) as that key the row of the pair is replaced; with a
\* key of its own and a unique constraint on the pair a second row is an
\* error; with a key of its own and no constraint a second row is stored.
Upserted(u, l, rating) ==
    IF ListingRatingRows(u, l) = {} \/ env.ratingsKey = "id"
    THEN Append(ratings, [user |-> u, listing |-> l, rating |-> rating])
    ELSE [i \in 1..Len(ratings) |->
             IF i \in ListingRatingRows(u, l) THEN [ratings[i] EXCEPT !.rating = rating]
             ELSE ratings[i]]

\* the upsert is refused: a second row for a pair that has to be unique
Duplicate(u, l) == env.ratingsKey = "unique" /\ ListingRatingRows(u, l) # {}

\* UpsertRating that goes on after a failed upsert
UpsertRatingSilent(s) ==
    /\ calls[s].pc = "upsertRating"
    /\ \E out \in Outcomes :
         LET c == calls[s]
             stored == out = "ok" /\ ~Duplicate(c.user, c.target)
         IN
         /\ calls' = [calls EXCEPT ![s] =
                [c EXCEPT !.pc = "calculateAverage",
                          !.wrote = IF stored THEN "ok" ELSE "error"]]
         /\ ratings' = IF stored THEN Upserted(c.user, c.target, c.rating) ELSE ratings
    /\ UNCHANGED <<env, userTrips, trips, prefs, eventRatings, interactions, hints, ncalls, ledger>>

\* lines 183-197: upsert into ratings; an error is thrown and caught at line 219
UpsertRating(s) ==
    /\ calls[s].pc = "upsertRating"
    /\ \E out \in Outcomes :
         LET c == calls[s] IN
         IF out = "ok" /\ ~Duplicate(c.user, c.target)
         THEN /\ ratings' = Upserted(c.user, c.target, c.rating)
              /\ calls' = [calls EXCEPT ![s] = [c EXCEPT !.pc = "calculateAverage", !.wrote = "ok"]]
         ELSE /\ calls' = [calls EXCEPT ![s] =
                     [c EXCEPT !.pc = "done", !.res = "success: false", !.wrote = "error"]]
              /\ UNCHANGED ratings
    /\ UNCHANGED <<env, userTrips, trips, prefs, eventRatings, interactions, hints, ncalls, ledger>>

\* lines 281-286: the body of the invocation; the fields of context are spread
\* after action and replace it when context names an action
HintBody(userId, action) ==
    [action |-> IF action = Null THEN "user_interaction" ELSE action, user |-> userId]

\* lines 278-287: the edge function is invoked and the caller awaits the answer
Invoked(c) ==
    [c EXCEPT !.pc = "awaitHint", !.hint = "pending", !.invocations = c.invocations + 1]

\* lines 199-213: rpc calculate_listing_average, taken as the mean of the rows
\* of the listing; its error is logged only.  With the answer the hint is sent,
\* with the context { listingId, rating }.
CalculateAverage(s) ==
    /\ calls[s].pc = "calculateAverage"
    /\ \E out \in Outcomes :
         LET c == calls[s]
             rows == {i \in 1..Len(ratings) : ratings[i].listing = c.target}
             rated == [i \in rows |-> ratings[i].rating]
         IN calls' = [calls EXCEPT ![s] =
                IF out = "ok"
                THEN [Invoked(c) EXCEPT !.avg = "ok", !.avgSum = SumOver(rated),
                                        !.avgCount = Cardinality(rows)]
                ELSE [Invoked(c) EXCEPT !.avg = "error"]]
    /\ hints' = hints (+) SetToBag({HintBody(calls[s].user, Null)})
    /\ UNCHANGED <<env, userTrips, trips, prefs, eventRatings, ratings, interactions, ncalls, ledger>>

\* lines 272-276: the contexts a caller may pass: none, or one that names an
\* action (two of the five actions of the type)
ContextActions == {Null, "save", "add_to_trip"}

\* lines 270-287: a direct call triggerRecommendationUpdate(userId, context)
triggerRecommendationUpdate(s, userId, action) ==
    /\ CanStart(s)
    /\ calls' = [calls EXCEPT ![s] =
           Invoked([Idle EXCEPT !.op = "triggerRecommendationUpdate", !.user = userId,
                                !.pre = Snapshot])]
    /\ hints' = hints (+) SetToBag({HintBody(userId, action)})
    /\ ncalls' = ncalls + 1
    /\ UNCHANGED <<env, userTrips, trips, prefs, eventRatings, ratings, interactions, ledger>>

\* what the caller gets once the hint is answered: updateListingRating and
\* addToTrips return success (lines 215-218, 253-256), a direct call of
\* triggerRecommendationUpdate returns no value
AfterHint(op) == IF op = "triggerRecommendationUpdate" THEN "undefined" ELSE "success: true"

\* triggerRecommendationUpdate with the try/catch of lines 278-291 taken away
HintAnsweredUncaught(s) ==
    /\ calls[s].pc = "awaitHint"
    /\ \E h \in HintOutcomes :
         calls' = [calls EXCEPT ![s] =
             [calls[s] EXCEPT !.pc = "done", !.hint = h,
                  !.res = IF h = "throw" THEN "success: false"
                          ELSE AfterHint(calls[s].op)]]
    /\ UNCHANGED <<env, userTrips, trips, prefs, eventRatings, ratings, interactions, hints, ncalls, ledger>>

\* lines 278-291 and 215-218 / 253-256: the engine answers the invocation; the
\* answer is not looked at and a rejection is caught, so the call returns
\* success.  Nothing bounds the wait for the answer.
HintAnswered(s) ==
    /\ calls[s].pc = "awaitHint"
    /\ \E h \in HintOutcomes :
         calls' = [calls EXCEPT ![s] =
             [calls[s] EXCEPT !.pc = "done", !.hint = h, !.res = AfterHint(calls[s].op)]]
    /\ UNCHANGED <<env, userTrips, trips, prefs, eventRatings, ratings, interactions, hints, ncalls, ledger>>

----------------------------------------------------------------------------
(* listingService.addToTrips *)

\* line 228: no check of the input, then the insert
addToTrips(s, userId, listingId) ==
    /\ CanStart(s)
    /\ calls' = [calls EXCEPT ![s] =
           [Idle EXCEPT !.op = "addToTrips", !.user = userId, !.target = listingId,
                        !.pre = Snapshot, !.pc = "insertTrip"]]
    /\ ncalls' = ncalls + 1
    /\ UNCHANGED <<env, userTrips, trips, prefs, eventRatings, ratings, interactions, hints, ledger>>

\* lines 230-254: insert the trip and read back its id; an error is thrown
\* and caught at line 260.  With the answer the hint is sent, with the context
\* { listingId, action: 'add_to_trip' }.
InsertTrip(s) ==
    /\ calls[s].pc = "insertTrip"
    /\ \E out \in Outcomes :
         LET c == calls[s] IN
         IF out = "ok"
         THEN /\ trips' = trips (+) SetToBag({[user_id |-> c.user, listing_id |-> c.target]})
              /\ hints' = hints (+) SetToBag({HintBody(c.user, "add_to_trip")})
              /\ calls' = [calls EXCEPT ![s] = [Invoked(c) EXCEPT !.wrote = "ok"]]
         ELSE /\ calls' = [calls EXCEPT ![s] =
                     [c EXCEPT !.pc = "done", !.res = "success: false", !.wrote = "error"]]
              /\ UNCHANGED <<trips, hints>>
    /\ UNCHANGED <<env, userTrips, prefs, eventRatings, ratings, interactions, ncalls, ledger>>

----------------------------------------------------------------------------
(* eventService.addToTrip and eventService.getUserPreferences *)

\* line 849: the bump for adding an event to a trip, three quarters of a point
TripDelta == (3 * Points(1)) \div 4

\* lines 832-835: addToTrip({ userId, eventId })
addToTrip(s, userId, eventId) ==
    /\ CanStart(s)
    /\ LET c == [Idle EXCEPT !.op = "addToTrip", !.user = userId, !.target = eventId,
                             !.pre = Snapshot]
       IN calls' = [calls EXCEPT ![s] =
              IF eventId = Null THEN [c EXCEPT !.pc = "done", !.res = "error: eventId required"]
              ELSE IF userId = Null THEN [c EXCEPT !.pc = "getCurrentUserId"]
              ELSE [c EXCEPT !.pc = "insertUserTrip"]]
    /\ ncalls' = ncalls + 1
    /\ UNCHANGED <<env, userTrips, trips, prefs, eventRatings, ratings, interactions, hints, ledger>>

\* InsertUserTrip with an insert that also raises the score of the event's
\* first tag
InsertUserTripScoring(s) ==
    /\ calls[s].pc = "insertUserTrip"
    /\ \E out \in Outcomes :
         LET c == calls[s]
             tags == TagsOf(EventRow(c.target))
         IN
         IF out = "ok"
         THEN /\ userTrips' = userTrips (+) SetToBag({[user_id |-> c.user, event_id |-> c.target]})
              /\ prefs' = IF tags = <<>> THEN prefs
                          ELSE [prefs EXCEPT ![<<c.user, tags[1]>>] =
                                   [present |-> TRUE, score |-> Score(c.user, tags[1]) + TripDelta]]
              /\ calls' = [calls EXCEPT ![s] =
                     [c EXCEPT !.pc = "selectTripEvent", !.wrote = "ok"]]
         ELSE /\ calls' = [calls EXCEPT ![s] =
                     [c EXCEPT !.pc = "done", !.res = "error: insert", !.wrote = "error"]]
              /\ UNCHANGED <<userTrips, prefs>>
    /\ UNCHANGED <<env, trips, eventRatings, ratings, interactions, hints, ncalls, ledger>>

\* lines 838-843: insert the row into user_trips; an error is thrown
InsertUserTrip(s) ==
    /\ calls[s].pc = "insertUserTrip"
    /\ \E out \in Outcomes :
         LET c == calls[s] IN
         IF out = "ok"
         THEN /\ userTrips' = userTrips (+) SetToBag({[user_id |-> c.user, event_id |-> c.target]})
              /\ prefs' = prefs
              /\ calls' = [calls EXCEPT ![s] =
                     [c EXCEPT !.pc = "selectTripEvent", !.wrote = "ok"]]
         ELSE /\ calls' = [calls EXCEPT ![s] =
                     [c EXCEPT !.pc = "done", !.res = "error: insert", !.wrote = "error"]]
              /\ UNCHANGED <<userTrips, prefs>>
    /\ UNCHANGED <<env, trips, eventRatings, ratings, interactions, hints, ncalls, ledger>>

\* lines 845-850: the event's tags (none when the select fails: its error is
\* not read), the fixed delta, and into updateUserPreferences
SelectTripEvent(s) ==
    /\ calls[s].pc = "selectTripEvent"
    /\ \E out \in Outcomes :
         LET c == calls[s]
             tags == IF out = "ok" THEN TagsOf(EventRow(c.target)) ELSE <<>>
         IN calls' = [calls EXCEPT ![s] = EnterPreferences(c, c.user, tags, TripDelta)]
    /\ UNCHANGED <<env, userTrips, trips, prefs, eventRatings, ratings, interactions, hints, ncalls, ledger>>

\* the rows of user_preferences of user u as a select returns them
PreferenceRows(u) ==
    {[user_id |-> u, tag |-> t, score |-> prefs[<<u, t>>].score] :
        t \in {x \in Tags : prefs[<<u, x>>].present}}

\* lines 878-880: getUserPreferences(userId)
getUserPreferences(s, userId) ==
    /\ CanStart(s)
    /\ LET c == [Idle EXCEPT !.op = "getUserPreferences", !.user = userId, !.pre = Snapshot]
       IN calls' = [calls EXCEPT ![s] =
              IF userId = Null THEN [c EXCEPT !.pc = "getCurrentUserId"]
              ELSE [c EXCEPT !.pc = "selectPreferences"]]
    /\ ncalls' = ncalls + 1
    /\ UNCHANGED <<env, userTrips, trips, prefs, eventRatings, ratings, interactions, hints, ledger>>

\* lines 881-884: the select; an error is thrown, the rows are returned
SelectPreferences(s) ==
    /\ calls[s].pc = "selectPreferences"
    /\ \E out \in Outcomes :
         LET c == calls[s] IN
         calls' = [calls EXCEPT ![s] =
             IF out = "ok"
             THEN [c EXCEPT !.pc = "done", !.res = "rows", !.found = PreferenceRows(c.user)]
             ELSE [c EXCEPT !.pc = "done", !.res = "error: select"]]
    /\ UNCHANGED <<env, userTrips, trips, prefs, eventRatings, ratings, interactions, hints, ncalls, ledger>>

----------------------------------------------------------------------------
(* InteractionService *)

\* the payload a track* method hands to _insertInteraction
Tracked(s, op, userId, listingId, interactionType, weight, direction) ==
    /\ CanStart(s)
    /\ calls' = [calls EXCEPT ![s] =
           [Idle EXCEPT !.op = op, !.user = userId, !.target = listingId,
                        !.kind = interactionType, !.weight = weight, !.dir = direction,
                        !.pre = Snapshot, !.pc = "insertInteraction"]]
    /\ ncalls' = ncalls + 1
    /\ UNCHANGED <<env, userTrips, trips, prefs, eventRatings, ratings, interactions, hints, ledger>>

trackView(s, userId, listingId) ==
    Tracked(s, "trackView", userId, listingId, "view", 1, Null)

trackSave(s, userId, listingId) ==
    Tracked(s, "trackSave", userId, listingId, "save", 3, Null)

trackBooking(s, userId, listingId) ==
    Tracked(s, "trackBooking", userId, listingId, "book", 10, Null)

\* trackSwipe with the two weights exchanged
trackSwipeSwapped(s, userId, listingId, direction) ==
    Tracked(s, "trackSwipe", userId, listingId,
            IF direction = "left" THEN "swipe_left" ELSE "swipe_right",
            IF direction = "left" THEN 1 ELSE -2, direction)

\* lines 114-115: every direction other than 'left' is taken as a right swipe
trackSwipe(s, userId, listingId, direction) ==
    Tracked(s, "trackSwipe", userId, listingId,
            IF direction = "left" THEN "swipe_left" ELSE "swipe_right",
            IF direction = "left" THEN -2 ELSE 1, direction)

trackClick(s, userId, listingId) ==
    Tracked(s, "trackClick", userId, listingId, "click", 2, Null)

trackShare(s, userId, listingId) ==
    Tracked(s, "trackShare", userId, listingId, "share", 5, Null)

trackMessage(s, userId, listingId) ==
    Tracked(s, "trackMessage", userId, listingId, "message", 4, Null)

\* _insertInteraction firing the hint whatever the insert answered
InsertInteractionEager(s) ==
    /\ calls[s].pc = "insertInteraction"
    /\ \E out \in Outcomes :
         LET c == calls[s] IN
         /\ hints' = hints (+) SetToBag({[action |-> "refresh_user", user |-> c.user]})
         /\ IF out = "ok"
            THEN /\ interactions' = interactions (+) SetToBag({
                        [user_id |-> c.user, listing_id |-> c.target,
                         interaction_type |-> c.kind, weight |-> c.weight]})
                 /\ calls' = [calls EXCEPT ![s] =
                        [c EXCEPT !.pc = "done", !.res = "true", !.wrote = "ok",
                                  !.hint = "pending", !.invocations = c.invocations + 1]]
            ELSE /\ calls' = [calls EXCEPT ![s] =
                        [c EXCEPT !.pc = "done", !.res = "false", !.wrote = "error",
                                  !.hint = "pending", !.invocations = c.invocations + 1]]
                 /\ UNCHANGED interactions
    /\ UNCHANGED <<env, userTrips, trips, prefs, eventRatings, ratings, ncalls, ledger>>

\* lines 291-320: insert the row; on success fire the refresh hint without
\* awaiting it and return true, on an error return false
InsertInteraction(s) ==
    /\ calls[s].pc = "insertInteraction"
    /\ \E out \in Outcomes :
         LET c == calls[s] IN
         IF out = "ok"
         THEN /\ interactions' = interactions (+) SetToBag({
                     [user_id |-> c.user, listing_id |-> c.target,
                      interaction_type |-> c.kind, weight |-> c.weight]})
              /\ hints' = hints (+) SetToBag({[action |-> "refresh_user", user |-> c.user]})
              /\ calls' = [calls EXCEPT ![s] =
                     [c EXCEPT !.pc = "done", !.res = "true", !.wrote = "ok",
                               !.hint = "pending", !.invocations = c.invocations + 1]]
         ELSE /\ calls' = [calls EXCEPT ![s] =
                     [c EXCEPT !.pc = "done", !.res = "false", !.wrote = "error"]]
              /\ UNCHANGED <<interactions, hints>>
    /\ UNCHANGED <<env, userTrips, trips, prefs, eventRatings, ratings, ncalls, ledger>>

\* lines 326-338: the engine answers the invocation that _insertInteraction
\* fired without awaiting it; the call has returned already and a rejection is
\* caught, so nothing but the state of the invocation changes
RefreshHintAnswered(s) ==
    /\ calls[s].op \in {"trackView", "trackSave", "trackBooking", "trackSwipe",
                        "trackClick", "trackShare", "trackMessage"}
    /\ calls[s].hint = "pending"
    /\ \E h \in HintOutcomes :
         calls' = [calls EXCEPT ![s] = [calls[s] EXCEPT !.hint = h]]
    /\ UNCHANGED <<env, userTrips, trips, prefs, eventRatings, ratings, interactions, hints, ncalls, ledger>>

\* lines 195-203: each item becomes a row as the caller gave it
RECURSIVE FormattedInteractions(_)
FormattedInteractions(items) ==
    IF items = <<>> THEN EmptyBag
    ELSE SetToBag({[user_id |-> Head(items).userId, listing_id |-> Head(items).listingId,
                    interaction_type |-> Head(items).interactionType,
                    weight |-> Head(items).weight]})
         (+) FormattedInteractions(Tail(items))

\* line 184: trackBatch(interactions)
trackBatch(s, items) ==
    /\ CanStart(s)
    /\ calls' = [calls EXCEPT ![s] =
           [Idle EXCEPT !.op = "trackBatch", !.items = items, !.pre = Snapshot,
                        !.before = interactions, !.pc = "insertBatch"]]
    /\ ncalls' = ncalls + 1
    /\ UNCHANGED <<env, userTrips, trips, prefs, eventRatings, ratings, interactions, hints, ledger>>

\* InsertBatch with an insert that stores the first row before it fails
InsertBatchPartial(s) ==
    /\ calls[s].pc = "insertBatch"
    /\ \E out \in Outcomes :
         LET c == calls[s] IN
         IF out = "ok"
         THEN /\ interactions' = interactions (+) FormattedInteractions(c.items)
              /\ calls' = [calls EXCEPT ![s] =
                     [c EXCEPT !.pc = "done", !.res = "true", !.wrote = "ok"]]
         ELSE /\ calls' = [calls EXCEPT ![s] =
                     [c EXCEPT !.pc = "done", !.res = "false", !.wrote = "error"]]
              /\ interactions' = interactions (+)
                     FormattedInteractions(SubSeq(c.items, 1, IF c.items = <<>> THEN 0 ELSE 1))
    /\ UNCHANGED <<env, userTrips, trips, prefs, eventRatings, ratings, hints, ncalls, ledger>>

\* lines 205-218: one insert of all the rows; it succeeds or fails as a whole
InsertBatch(s) ==
    /\ calls[s].pc = "insertBatch"
    /\ \E out \in Outcomes :
         LET c == calls[s] IN
         IF out = "ok"
         THEN /\ interactions' = interactions (+) FormattedInteractions(c.items)
              /\ calls' = [calls EXCEPT ![s] =
                     [c EXCEPT !.pc = "done", !.res = "true", !.wrote = "ok"]]
         ELSE /\ calls' = [calls EXCEPT ![s] =
                     [c EXCEPT !.pc = "done", !.res = "false", !.wrote = "error"]]
              /\ UNCHANGED interactions
    /\ UNCHANGED <<env, userTrips, trips, prefs, eventRatings, ratings, hints, ncalls, ledger>>

\* the rows of user_interactions that a delete filtered by user_id = u keeps
RowsOfOthers(u) ==
    LET kept == {r \in BagToSet(interactions) : r.user_id # u}
    IN [r \in kept |-> interactions[r]]

\* lines 253-254: clearUserInteractions(userId)
clearUserInteractions(s, userId) ==
    /\ CanStart(s)
    /\ calls' = [calls EXCEPT ![s] =
           [Idle EXCEPT !.op = "clearUserInteractions", !.user = userId, !.pre = Snapshot,
                        !.before = interactions, !.pc = "deleteInteractions"]]
    /\ ncalls' = ncalls + 1
    /\ UNCHANGED <<env, userTrips, trips, prefs, eventRatings, ratings, interactions, hints, ledger>>

\* DeleteInteractions with a delete that has no filter
DeleteInteractionsUnfiltered(s) ==
    /\ calls[s].pc = "deleteInteractions"
    /\ \E out \in Outcomes :
         LET c == calls[s] IN
         IF out = "ok"
         THEN /\ interactions' = EmptyBag
              /\ calls' = [calls EXCEPT ![s] =
                     [c EXCEPT !.pc = "done", !.res = "true", !.wrote = "ok"]]
         ELSE /\ calls' = [calls EXCEPT ![s] =
                     [c EXCEPT !.pc = "done", !.res = "false", !.wrote = "error"]]
              /\ UNCHANGED interactions
    /\ UNCHANGED <<env, userTrips, trips, prefs, eventRatings, ratings, hints, ncalls, ledger>>

\* lines 255-269: delete the rows whose user_id is userId; false on an error
DeleteInteractions(s) ==
    /\ calls[s].pc = "deleteInteractions"
    /\ \E out \in Outcomes :
         LET c == calls[s] IN
         IF out = "ok"
         THEN /\ interactions' = RowsOfOthers(c.user)
              /\ calls' = [calls EXCEPT ![s] =
                     [c EXCEPT !.pc = "done", !.res = "true", !.wrote = "ok"]]
         ELSE /\ calls' = [calls EXCEPT ![s] =
                     [c EXCEPT !.pc = "done", !.res = "false", !.wrote = "error"]]
              /\ UNCHANGED interactions
    /\ UNCHANGED <<env, userTrips, trips, prefs, eventRatings, ratings, hints, ncalls, ledger>>

----------------------------------------------------------------------------
(* RecommendationService: the gateway to the edge function 'recommendations' *)

\* interface ListingCard: the fields every card has
CardFields == {"id", "title", "description", "imageUrls", "pricePerNight",
               "averageRating", "reviewCount", "location", "amenities",
               "isAvailable", "hostId"}

\* cards as the engine sends them: the fields that are present in the object
FullCard == [id |-> "l1", fields |-> CardFields]
SparseCard == [id |-> "l2", fields |-> {"id", "title"}]

\* the arrays of cards the engine sends
CardLists == {<<>>, <<FullCard>>, <<FullCard, SparseCard>>}

\* the answers of functions.invoke: { data, error }.  An array of cards is
\* always possible; an error, no data and a listings field of another type
\* are possible where the scenario allows failures
EngineResponses ==
    {[answered |-> TRUE, error |-> FALSE, data |-> TRUE,
      listings |-> [type |-> "array", items |-> items]] :
        items \in CardLists}
    \cup IF env.faults
         THEN {[answered |-> TRUE, error |-> TRUE, data |-> FALSE,
                listings |-> Value("undefined")],
               [answered |-> TRUE, error |-> FALSE, data |-> FALSE,
                listings |-> Value("undefined")]}
              \cup {[answered |-> TRUE, error |-> FALSE, data |-> TRUE,
                     listings |-> Value(t)] :
                        t \in {"undefined", "null", "object", "string"}}
         ELSE {}

\* Array.isArray
IsArray(v) == v.type = "array"

\* _callRecommendationFunction without the check of line 577
callRecommendationFunctionUnchecked(response) ==
    IF response.error THEN [threw |-> TRUE, listings |-> Value("undefined")]
    ELSE IF ~response.data THEN [threw |-> TRUE, listings |-> Value("undefined")]
    ELSE [threw |-> FALSE, listings |-> response.listings]

\* lines 568-585 of _callRecommendationFunction: what it makes of the answer.
\* It throws on an error, on no data and on listings that are not an array;
\* otherwise it returns the data as they came
callRecommendationFunction(response) ==
    IF response.error THEN [threw |-> TRUE, listings |-> Value("undefined")]
    ELSE IF ~response.data THEN [threw |-> TRUE, listings |-> Value("undefined")]
    ELSE IF ~IsArray(response.listings) THEN [threw |-> TRUE, listings |-> Value("undefined")]
    ELSE [threw |-> FALSE, listings |-> response.listings]

\* lines 555-566: a public read builds the request and invokes the engine
Read(s, op, userId, param) ==
    /\ CanStart(s)
    /\ calls' = [calls EXCEPT ![s] =
           [Idle EXCEPT !.op = op, !.user = userId, !.target = param, !.pre = Snapshot,
                        !.pc = "awaitEngine", !.invocations = 1]]
    /\ ncalls' = ncalls + 1
    /\ UNCHANGED <<env, userTrips, trips, prefs, eventRatings, ratings, interactions, hints, ledger>>

getForYou(s, userId) == Read(s, "getForYou", userId, Null)

getExplore(s, userId) == Read(s, "getExplore", userId, Null)

getAfterBooking(s, userId, seedListingId) == Read(s, "getAfterBooking", userId, seedListingId)

getTripSuggestions(s, userId, tripId) == Read(s, "getTripSuggestions", userId, tripId)

\* EngineAnswers with one more invocation after a failed one
EngineAnswersRetry(s) ==
    /\ calls[s].pc = "awaitEngine"
    /\ \E response \in EngineResponses :
         LET c == calls[s]
             r == callRecommendationFunction(response)
         IN calls' = [calls EXCEPT ![s] =
                IF r.threw /\ c.invocations < 2
                THEN [c EXCEPT !.invocations = c.invocations + 1]
                ELSE [c EXCEPT !.pc = "done", !.res = "ok", !.engine = response,
                          !.gateway = IF r.threw THEN "threw" ELSE "returned",
                          !.cards = IF r.threw THEN <<>> ELSE r.listings.items]]
    /\ UNCHANGED <<env, userTrips, trips, prefs, eventRatings, ratings, interactions, hints, ncalls, ledger>>

\* the engine answers: the rest of _callRecommendationFunction, then the
\* public read (lines 481-485 and alike): response.listings when the gateway
\* returned, the empty list from the catch when it threw.  Nothing bounds the
\* wait for the answer.
EngineAnswers(s) ==
    /\ calls[s].pc = "awaitEngine"
    /\ \E response \in EngineResponses :
         LET c == calls[s]
             r == callRecommendationFunction(response)
         IN calls' = [calls EXCEPT ![s] =
                [c EXCEPT !.pc = "done", !.res = "ok", !.engine = response,
                          !.gateway = IF r.threw THEN "threw" ELSE "returned",
                          !.cards = IF r.threw THEN <<>> ELSE r.listings.items]]
    /\ UNCHANGED <<env, userTrips, trips, prefs, eventRatings, ratings, interactions, hints, ncalls, ledger>>

\* what the call of functions.invoke does before it returns its promise: the
\* request is sent, or the call throws
InvokeOutcomes == IF env.faults THEN {"sent", "throw"} ELSE {"sent"}

\* recordInteraction without the try/catch of lines 599 and 614-617
recordInteractionUncaught(s, userId, listingId, interactionType) ==
    /\ CanStart(s)
    /\ \E sync \in InvokeOutcomes :
         LET c == [Idle EXCEPT !.op = "recordInteraction", !.user = userId,
                               !.target = listingId, !.kind = interactionType,
                               !.pre = Snapshot, !.pc = "done", !.invocations = 1]
         IN IF sync = "sent"
            THEN /\ hints' = hints (+)
                        SetToBag({[action |-> "record_interaction", user |-> userId]})
                 /\ calls' = [calls EXCEPT ![s] = [c EXCEPT !.res = "ok", !.hint = "pending"]]
            ELSE /\ calls' = [calls EXCEPT ![s] =
                        [c EXCEPT !.res = "error: invoke", !.hint = "sync throw"]]
                 /\ UNCHANGED hints
    /\ ncalls' = ncalls + 1
    /\ UNCHANGED <<env, userTrips, trips, prefs, eventRatings, ratings, interactions, ledger>>

\* lines 592-618: the engine is invoked and not awaited; a throw of the call
\* itself is caught at line 614.  The function has no await: it has completed
\* when it returns its promise
recordInteraction(s, userId, listingId, interactionType) ==
    /\ CanStart(s)
    /\ \E sync \in InvokeOutcomes :
         LET c == [Idle EXCEPT !.op = "recordInteraction", !.user = userId,
                               !.target = listingId, !.kind = interactionType,
                               !.pre = Snapshot, !.pc = "done", !.res = "ok",
                               !.invocations = 1]
         IN IF sync = "sent"
            THEN /\ hints' = hints (+)
                        SetToBag({[action |-> "record_interaction", user |-> userId]})
                 /\ calls' = [calls EXCEPT ![s] = [c EXCEPT !.hint = "pending"]]
            ELSE /\ calls' = [calls EXCEPT ![s] = [c EXCEPT !.hint = "sync throw"]]
                 /\ UNCHANGED hints
    /\ ncalls' = ncalls + 1
    /\ UNCHANGED <<env, userTrips, trips, prefs, eventRatings, ratings, interactions, ledger>>

\* lines 611-613: the engine answers the invocation after recordInteraction
\* has completed; a rejection is logged by the catch handler
RecordAnswered(s) ==
    /\ calls[s].op = "recordInteraction"
    /\ calls[s].hint = "pending"
    /\ \E h \in HintOutcomes :
         calls' = [calls EXCEPT ![s] = [calls[s] EXCEPT !.hint = h]]
    /\ UNCHANGED <<env, userTrips, trips, prefs, eventRatings, ratings, interactions, hints, ncalls, ledger>>

----------------------------------------------------------------------------
(* Every call *)

\* the caller takes the result; the slot is free again
Return(s) ==
    /\ calls[s].pc = "done"
    /\ calls' = [calls EXCEPT ![s] = Idle]
    /\ UNCHANGED <<env, userTrips, trips, prefs, eventRatings, ratings, interactions, hints, ncalls, ledger>>

----------------------------------------------------------------------------
(* Initial states *)

InitTables ==
    /\ prefs = [k \in PrefKeys |-> [present |-> FALSE, score |-> 0]]
    /\ eventRatings = <<>>
    /\ ratings = <<>>
    /\ interactions = EmptyBag
    /\ trips = EmptyBag
    /\ userTrips = EmptyBag
    /\ hints = EmptyBag
    /\ calls = [s \in Slots |-> Idle]
    /\ ncalls = 0
    /\ ledger = [k \in PrefKeys |-> 0]

Init ==
    /\ env \in [conc : BOOLEAN, faults : BOOLEAN, unique : BOOLEAN, ratingsKey : RatingsKeys]
    /\ InitTables

TagLists == {<<>>, <<"t1">>, <<"t1", "t2">>}
Deltas == {1, 2}

NextPreferences ==
    \/ \E s \in Slots, u \in Users \cup {Null}, tags \in TagLists, d \in Deltas :
          updateUserPreferences(s, u, tags, d)
    \/ \E s \in Slots : SelectPreference(s)
    \/ \E s \in Slots : UpsertPreference(s)
    \/ \E s \in Slots : Return(s)

RatingInputs == {0, 2, 4, 5, 6}

NextRating ==
    \/ \E s \in Slots, u \in Users \cup {Null}, e \in Events \cup {Null}, r \in RatingInputs :
          addRating(s, u, e, r)
    \/ \E s \in Slots : getCurrentUserId(s)
    \/ \E s \in Slots : SelectRating(s)
    \/ \E s \in Slots : UpdateRating(s)
    \/ \E s \in Slots : InsertRating(s)
    \/ \E s \in Slots : SelectEvent(s)
    \/ \E s \in Slots : SelectPreference(s)
    \/ \E s \in Slots : UpsertPreference(s)
    \/ \E s \in Slots : getEventById(s)
    \/ \E s \in Slots, u \in Users, l \in Listings, r \in RatingInputs :
          updateListingRating(s, u, l, r)
    \/ \E s \in Slots : UpsertRating(s)
    \/ \E s \in Slots : CalculateAverage(s)
    \/ \E s \in Slots : HintAnswered(s)
    \/ \E s \in Slots : Return(s)

Directions == {"left", "right", "up"}

\* the items a caller may put into a batch: any type string and any weight
BatchItems ==
    {[userId |-> "u1", listingId |-> "l1", interactionType |-> "view", weight |-> 1],
     [userId |-> "u1", listingId |-> "l1", interactionType |-> "view", weight |-> 10],
     [userId |-> "u2", listingId |-> "l1", interactionType |-> "dismiss", weight |-> 1]}

BatchInputs == UNION {[1..n -> BatchItems] : n \in 0..MaxBatch}

\* the track methods that record one interaction
NextTrackOne ==
    \/ \E s \in Slots, u \in Users, l \in Listings : trackView(s, u, l)
    \/ \E s \in Slots, u \in Users, l \in Listings : trackSave(s, u, l)
    \/ \E s \in Slots, u \in Users, l \in Listings : trackBooking(s, u, l)
    \/ \E s \in Slots, u \in Users, l \in Listings, d \in Directions : trackSwipe(s, u, l, d)
    \/ \E s \in Slots, u \in Users, l \in Listings : trackClick(s, u, l)
    \/ \E s \in Slots, u \in Users, l \in Listings : trackShare(s, u, l)
    \/ \E s \in Slots, u \in Users, l \in Listings : trackMessage(s, u, l)
    \/ \E s \in Slots : InsertInteraction(s)
    \/ \E s \in Slots : RefreshHintAnswered(s)
    \/ \E s \in Slots : Return(s)

\* the methods that go through _insertInteraction, and the method that
\* deletes what they stored
NextInsert ==
    \/ NextTrackOne
    \/ \E s \in Slots, u \in Users : clearUserInteractions(s, u)
    \/ \E s \in Slots : DeleteInteractions(s)

NextTrack ==
    \/ NextTrackOne
    \/ \E s \in Slots, items \in BatchInputs : trackBatch(s, items)
    \/ \E s \in Slots : InsertBatch(s)
    \/ \E s \in Slots, u \in Users : clearUserInteractions(s, u)
    \/ \E s \in Slots : DeleteInteractions(s)

NextTrips ==
    \/ \E s \in Slots, u \in Users, l \in Listings : addToTrips(s, u, l)
    \/ \E s \in Slots, u \in Users, a \in ContextActions : triggerRecommendationUpdate(s, u, a)
    \/ \E s \in Slots : InsertTrip(s)
    \/ \E s \in Slots : HintAnswered(s)
    \/ \E s \in Slots : Return(s)

NextListing ==
    \/ \E s \in Slots, u \in Users, l \in Listings, r \in RatingInputs :
          updateListingRating(s, u, l, r)
    \/ \E s \in Slots : UpsertRating(s)
    \/ \E s \in Slots : CalculateAverage(s)
    \/ \E s \in Slots : HintAnswered(s)
    \/ \E s \in Slots : Return(s)

\* every operation that sends a refresh hint
NextHints == NextTrackOne \/ NextListing \/ NextTrips

\* the steps the client and the database take by themselves: the database
\* answers every request and the caller takes every result.  The answer of the
\* edge function to a hint is not among them.
DatabaseStep ==
    \E s \in Slots :
        \/ InsertInteraction(s)
        \/ UpsertRating(s) \/ CalculateAverage(s) \/ InsertTrip(s)
        \/ Return(s)

TripIds == {"trip1"}

NextGateway ==
    \/ \E s \in Slots, u \in Users : getForYou(s, u)
    \/ \E s \in Slots, u \in Users : getExplore(s, u)
    \/ \E s \in Slots, u \in Users, l \in Listings : getAfterBooking(s, u, l)
    \/ \E s \in Slots, u \in Users, t \in TripIds : getTripSuggestions(s, u, t)
    \/ \E s \in Slots : EngineAnswers(s)
    \/ \E s \in Slots : Return(s)

\* the interaction types recordInteraction accepts
RecordKinds == {"view", "click", "save", "book", "dismiss"}

NextRecord ==
    \/ \E s \in Slots, u \in Users, l \in Listings, t \in RecordKinds :
          recordInteraction(s, u, l, t)
    \/ \E s \in Slots : RecordAnswered(s)
    \/ \E s \in Slots : Return(s)

\* a missing rating, a low one and a high one
SomeRatings == {0, 2, 5}

NextAddRating ==
    \/ \E s \in Slots, u \in Users \cup {Null}, e \in Events \cup {Null}, r \in SomeRatings :
          addRating(s, u, e, r)
    \/ \E s \in Slots : getCurrentUserId(s)
    \/ \E s \in Slots : SelectRating(s)
    \/ \E s \in Slots : UpdateRating(s)
    \/ \E s \in Slots : InsertRating(s)
    \/ \E s \in Slots : SelectEvent(s)
    \/ \E s \in Slots : SelectPreference(s)
    \/ \E s \in Slots : UpsertPreference(s)
    \/ \E s \in Slots : getEventById(s)
    \/ \E s \in Slots : Return(s)

\* ratings a caller is meant to give
ValidRatings == {2, 5}

\* the operations whose durable write may fail: the track methods and the two
\* rating calls, with well-formed arguments
NextWrites ==
    \/ NextTrackOne
    \/ \E s \in Slots, u \in Users, l \in Listings, r \in ValidRatings :
          updateListingRating(s, u, l, r)
    \/ \E s \in Slots : UpsertRating(s)
    \/ \E s \in Slots : CalculateAverage(s)
    \/ \E s \in Slots : HintAnswered(s)
    \/ \E s \in Slots, u \in Users, e \in Events, r \in ValidRatings : addRating(s, u, e, r)
    \/ \E s \in Slots : SelectRating(s)
    \/ \E s \in Slots : UpdateRating(s)
    \/ \E s \in Slots : InsertRating(s)
    \/ \E s \in Slots : SelectEvent(s)
    \/ \E s \in Slots : SelectPreference(s)
    \/ \E s \in Slots : UpsertPreference(s)
    \/ \E s \in Slots : getEventById(s)

\* one listing, one event with tags, one full rating, one list of tags, two
\* kinds for recordInteraction and one batch with rows of both users
FrameListings == {"l1"}
FrameEvents == {"e1"}
FrameRatings == {5}
FrameTags == {<<"t1", "t2">>}
FrameKinds == {"view", "dismiss"}
FrameBatches ==
    {<<[userId |-> "u1", listingId |-> "l1", interactionType |-> "view", weight |-> 1],
       [userId |-> "u2", listingId |-> "l1", interactionType |-> "dismiss", weight |-> 1]>>}

\* every operation of the client, each with a few inputs
NextFrame ==
    \/ \E s \in Slots, u \in Users, l \in FrameListings : trackView(s, u, l)
    \/ \E s \in Slots, u \in Users, l \in FrameListings : trackSave(s, u, l)
    \/ \E s \in Slots, u \in Users, l \in FrameListings : trackBooking(s, u, l)
    \/ \E s \in Slots, u \in Users, l \in FrameListings, d \in Directions :
          trackSwipe(s, u, l, d)
    \/ \E s \in Slots, u \in Users, l \in FrameListings : trackClick(s, u, l)
    \/ \E s \in Slots, u \in Users, l \in FrameListings : trackShare(s, u, l)
    \/ \E s \in Slots, u \in Users, l \in FrameListings : trackMessage(s, u, l)
    \/ \E s \in Slots : InsertInteraction(s)
    \/ \E s \in Slots : RefreshHintAnswered(s)
    \/ \E s \in Slots, items \in FrameBatches : trackBatch(s, items)
    \/ \E s \in Slots : InsertBatch(s)
    \/ \E s \in Slots, u \in Users : clearUserInteractions(s, u)
    \/ \E s \in Slots : DeleteInteractions(s)
    \/ \E s \in Slots, u \in Users, l \in FrameListings, r \in FrameRatings :
          updateListingRating(s, u, l, r)
    \/ \E s \in Slots : UpsertRating(s)
    \/ \E s \in Slots : CalculateAverage(s)
    \/ \E s \in Slots, u \in Users, l \in FrameListings : addToTrips(s, u, l)
    \/ \E s \in Slots, u \in Users, a \in ContextActions : triggerRecommendationUpdate(s, u, a)
    \/ \E s \in Slots : InsertTrip(s)
    \/ \E s \in Slots : HintAnswered(s)
    \/ \E s \in Slots, u \in Users, e \in FrameEvents, r \in FrameRatings :
          addRating(s, u, e, r)
    \/ \E s \in Slots : SelectRating(s)
    \/ \E s \in Slots : UpdateRating(s)
    \/ \E s \in Slots : InsertRating(s)
    \/ \E s \in Slots : SelectEvent(s)
    \/ \E s \in Slots : getEventById(s)
    \/ \E s \in Slots, u \in Users \cup {Null}, e \in FrameEvents \cup {Null} :
          addToTrip(s, u, e)
    \/ \E s \in Slots : getCurrentUserId(s)
    \/ \E s \in Slots : InsertUserTrip(s)
    \/ \E s \in Slots : SelectTripEvent(s)
    \/ \E s \in Slots, u \in Users, tags \in FrameTags, d \in Deltas :
          updateUserPreferences(s, u, tags, d)
    \/ \E s \in Slots : SelectPreference(s)
    \/ \E s \in Slots : UpsertPreference(s)
    \/ \E s \in Slots, u \in Users \cup {Null} : getUserPreferences(s, u)
    \/ \E s \in Slots : SelectPreferences(s)
    \/ \E s \in Slots, u \in Users : getForYou(s, u)
    \/ \E s \in Slots, u \in Users : getExplore(s, u)
    \/ \E s \in Slots, u \in Users, l \in FrameListings : getAfterBooking(s, u, l)
    \/ \E s \in Slots, u \in Users, t \in TripIds : getTripSuggestions(s, u, t)
    \/ \E s \in Slots : EngineAnswers(s)
    \/ \E s \in Slots, u \in Users, l \in FrameListings, t \in FrameKinds :
          recordInteraction(s, u, l, t)
    \/ \E s \in Slots : RecordAnswered(s)
    \/ \E s \in Slots : Return(s)

Next ==
    \/ NextPreferences \/ NextRating \/ NextTrack \/ NextTrips \/ NextGateway \/ NextRecord
    \/ NextFrame

InitSequential ==
    /\ env \in [conc : {FALSE}, faults : {FALSE}, unique : BOOLEAN, ratingsKey : RatingsKeys]
    /\ InitTables

InitConcurrent ==
    /\ env \in [conc : {TRUE}, faults : {FALSE}, unique : BOOLEAN, ratingsKey : RatingsKeys]
    /\ InitTables

InitFaulty ==
    /\ env \in [conc : {FALSE}, faults : {TRUE}, unique : BOOLEAN, ratingsKey : RatingsKeys]
    /\ InitTables

InitTrack ==
    /\ env \in [conc : {FALSE}, faults : BOOLEAN, unique : {FALSE}, ratingsKey : {"pair"}]
    /\ InitTables

SpecTrack == InitTrack /\ [][NextTrack]_vars
SpecInsert == InitTrack /\ [][NextInsert]_vars
SpecPreferences == InitConcurrent /\ [][NextPreferences]_vars
SpecRating == InitSequential /\ [][NextRating]_vars
SpecRatingConcurrent == InitConcurrent /\ [][NextRating]_vars
SpecRatingFaulty == InitFaulty /\ [][NextRating]_vars
SpecPreferencesFaulty == InitFaulty /\ [][NextPreferences]_vars

InitHintsFaulty ==
    /\ env \in [conc : {FALSE}, faults : {TRUE}, unique : {FALSE}, ratingsKey : {"pair"}]
    /\ InitTables

InitLive ==
    /\ env \in [conc : {FALSE}, faults : {FALSE}, unique : {FALSE}, ratingsKey : {"pair"}]
    /\ InitTables

InitGateway ==
    /\ env \in [conc : BOOLEAN, faults : BOOLEAN, unique : {FALSE}, ratingsKey : {"pair"}]
    /\ InitTables

SpecGateway == InitGateway /\ [][NextGateway]_vars
SpecGatewayLive ==
    InitGateway /\ [][NextGateway]_vars /\ WF_vars(\E s \in Slots : Return(s))

SpecHintsFaulty == InitHintsFaulty /\ [][NextHints]_vars
SpecWritesFaulty == InitHintsFaulty /\ [][NextWrites]_vars
SpecAddRatingFaulty == InitHintsFaulty /\ [][NextAddRating]_vars
SpecRecord == InitTrack /\ [][NextRecord]_vars
SpecFrame == InitHintsFaulty /\ [][NextFrame]_vars
SpecHintsLive == InitLive /\ [][NextHints]_vars /\ WF_vars(DatabaseStep)

Spec == Init /\ [][Next]_vars
----------------------------------------------------------------------------
(* Properties *)

\* the call has returned without an error: with one of the values that tell
\* success, or with no value from a function that returns none
Succeeded(c) == c.pc = "done" /\ c.res \in {"ok", "true", "success: true", "undefined"}

\* type InteractionType
Kinds == {"view", "save", "book", "swipe_left", "swipe_right", "click", "share", "message"}

\* the weight table of the WeightPolicy
WeightOf(kind) ==
    CASE kind = "view" -> 1
      [] kind = "click" -> 2
      [] kind = "message" -> 4
      [] kind = "share" -> 5
      [] kind = "save" -> 3
      [] kind = "book" -> 10
      [] kind = "swipe_left" -> -2
      [] kind = "swipe_right" -> 1

\* the kind each track method records
KindOf(op, direction) ==
    CASE op = "trackView" -> "view"
      [] op = "trackClick" -> "click"
      [] op = "trackMessage" -> "message"
      [] op = "trackShare" -> "share"
      [] op = "trackSave" -> "save"
      [] op = "trackBooking" -> "book"
      [] op = "trackSwipe" -> IF direction = "left" THEN "swipe_left" ELSE "swipe_right"

TrackOps == {"trackView", "trackClick", "trackMessage", "trackShare", "trackSave",
             "trackBooking", "trackSwipe"}

RatingOps == {"addRating", "updateListingRating"}

\* the row a track call inserts
RowOf(c) == [user_id |-> c.user, listing_id |-> c.target,
             interaction_type |-> c.kind, weight |-> c.weight]

\* a rating call that got past its checks and reached the rating write
ReachedWrite(c) ==
    /\ c.op \in RatingOps
    /\ c.pc = "done"
    /\ c.res \notin {"error: eventId required", "error: rating required",
                     "error: user not authenticated"}

\* C1: concurrent updateUserPreferences calls that all complete lose no update:
\* once no call is in flight, every score is the sum of the deltas of the
\* completed calls.
C1_NoLostUpdate ==
    Quiescent => \A k \in PrefKeys : Score(k[1], k[2]) = ledger[k]

\* C2: two concurrent rating calls for the same (user, target) through the same
\* entry point leave exactly one row for the pair, holding the value of one of
\* the two calls.
C2_ConcurrentRatingsOneRow ==
    \A s1, s2 \in Slots :
        LET a == calls[s1]
            b == calls[s2]
        IN (/\ s1 # s2
            /\ ReachedWrite(a) /\ ReachedWrite(b)
            /\ a.op = b.op /\ a.user = b.user /\ a.target = b.target)
           => IF a.op = "addRating"
              THEN \E i \in 1..Len(eventRatings) :
                      /\ RatingRows(a.user, a.target) = {i}
                      /\ eventRatings[i].rating \in {a.rating, b.rating}
              ELSE \E i \in 1..Len(ratings) :
                      /\ ListingRatingRows(a.user, a.target) = {i}
                      /\ ratings[i].rating \in {a.rating, b.rating}

\* C3: without failures and without concurrency, every completed rating call
\* leaves exactly one row for its (user, target), holding the rating of the
\* call: the first call inserts the row, a later call replaces its value.
C3_SequentialUpsert ==
    \A s \in Slots :
        LET c == calls[s] IN
        Succeeded(c) =>
            /\ c.op = "addRating" =>
                  \E i \in 1..Len(eventRatings) :
                      /\ RatingRows(c.user, c.target) = {i}
                      /\ eventRatings[i].rating = c.rating
            /\ c.op = "updateListingRating" =>
                  \E i \in 1..Len(ratings) :
                      /\ ListingRatingRows(c.user, c.target) = {i}
                      /\ ratings[i].rating = c.rating

\* C4: a successfully recorded interaction has added its weight (save 3,
\* book 10) to the score of (user, tag) for every tag of the listing.
C4_TrackAddsWeight ==
    \A s \in Slots :
        LET c == calls[s] IN
        (c.op \in TrackOps /\ Succeeded(c)) =>
            \A t \in Range(ListingTags(c.target)) :
                Score(c.user, t) = c.pre[<<c.user, t>>] + Points(WeightOf(c.kind))

\* C5: every track method records the kind of its name with the weight the
\* table gives that kind, and a successful call has persisted exactly that row.
C5_TrackWeights ==
    \A s \in Slots :
        LET c == calls[s] IN
        (c.op \in TrackOps /\ (c.op = "trackSwipe" => c.dir \in {"left", "right"})) =>
            /\ c.kind = KindOf(c.op, c.dir)
            /\ c.weight = WeightOf(c.kind)
            /\ Succeeded(c) => BagIn(RowOf(c), interactions)

\* a left swipe has been persisted with weight -2
C5_Witness ==
    \E s \in Slots :
        /\ Succeeded(calls[s])
        /\ calls[s].op = "trackSwipe"
        /\ calls[s].dir = "left"
        /\ BagIn([user_id |-> calls[s].user, listing_id |-> calls[s].target,
                  interaction_type |-> "swipe_left", weight |-> -2], interactions)

\* C6: every stored event of a recognised kind carries the table weight of its
\* kind.
C6_StoredWeightFixedByKind ==
    \A row \in BagToSet(interactions) :
        row.interaction_type \in Kinds => row.weight = WeightOf(row.interaction_type)

\* C7: a swipe whose direction is neither left nor right, and a batch with an
\* item of an unrecognised kind, fail and persist nothing.
C7_UnknownKindRejected ==
    \A s \in Slots :
        LET c == calls[s] IN
        (\/ c.op = "trackSwipe" /\ c.dir \notin {"left", "right"}
         \/ c.op = "trackBatch"
              /\ \E i \in 1..Len(c.items) : c.items[i].interactionType \notin Kinds)
        => /\ ~Succeeded(c)
           /\ c.op = "trackSwipe" => ~BagIn(RowOf(c), interactions)

\* C8: a rating call whose rating is not an integer in 1..5 fails before any
\* write.
C8_InvalidRatingRejected ==
    /\ \A s \in Slots :
          (calls[s].op \in RatingOps /\ calls[s].rating \notin 1..5) => ~Succeeded(calls[s])
    /\ \A i \in 1..Len(eventRatings) : eventRatings[i].rating \in 1..5
    /\ \A i \in 1..Len(ratings) : ratings[i].rating \in 1..5

\* C9: every successful addRating(u, e, r) has added (r - 3) * 1 to the score
\* of (u, tag) for each tag of e.
C9_RatingAddsDelta ==
    \A s \in Slots :
        LET c == calls[s] IN
        (c.op = "addRating" /\ Succeeded(c)) =>
            \A t \in Tags :
                Score(c.user, t) = c.pre[<<c.user, t>>]
                    + Occurrences(TagsOf(EventRow(c.target)), t) * Points((c.rating - 3) * 1)

\* C10: a rating written through updateListingRating has applied the delta
\* (rating - 3) * ratingWeight to the scores of the listing's tags, as addRating
\* does for an event.
C10_ListingRatingAddsDelta ==
    \A s \in Slots :
        LET c == calls[s] IN
        (c.op = "updateListingRating" /\ c.rating \in 1..5 /\ Succeeded(c)) =>
            \A t \in Range(ListingTags(c.target)) :
                Score(c.user, t) = c.pre[<<c.user, t>>] + Points((c.rating - 3) * 1)

\* C11: a failed durable write reaches the caller: when the insert of a track
\* call, the insert or update of addRating, or the upsert of
\* updateListingRating fails, the call ends without success, no refresh hint
\* has been invoked and no preference score has been touched.
C11_WriteFailureReachesCaller ==
    \A s \in Slots :
        LET c == calls[s] IN
        (c.op \in TrackOps \cup RatingOps /\ c.wrote = "error") =>
            /\ c.pc = "done"
            /\ ~Succeeded(c)
            /\ c.hint = "none" /\ c.invocations = 0
            /\ c.i = 0
            /\ \A k \in PrefKeys : Score(k[1], k[2]) = c.pre[k]

\* the update of an existing rating row has failed and addRating has thrown
C11_Witness ==
    \E s \in Slots :
        /\ calls[s].op = "addRating"
        /\ calls[s].existing # 0
        /\ calls[s].wrote = "error"
        /\ calls[s].res = "error: update"

\* the operations that send a refresh hint after their durable write
HintOps == TrackOps \cup {"updateListingRating", "addToTrips"}

\* C12: the refresh hint never changes the result: a track call, an
\* updateListingRating or an addToTrips whose durable write succeeded has
\* returned success once the hint has been answered, whether the invocation
\* succeeded, answered with an error or threw.
C12_HintFailureNeverSurfaces ==
    \A s \in Slots :
        LET c == calls[s] IN
        (c.op \in HintOps /\ c.wrote = "ok" /\ c.hint \in {"ok", "error", "throw"}) =>
            /\ c.pc = "done"
            /\ Succeeded(c)

\* an updateListingRating whose hint invocation threw has returned success
C12_Witness ==
    \E s \in Slots :
        /\ calls[s].op = "updateListingRating"
        /\ calls[s].wrote = "ok"
        /\ calls[s].hint = "throw"
        /\ calls[s].res = "success: true"

\* C14: the triggering action never waits for the refresh hint: once the
\* durable write of a track call, an updateListingRating or an addToTrips has
\* completed, the call delivers its result even if the engine never answers
\* the hint.
C14_NeverWaitsForHint ==
    \A s \in Slots :
        (calls[s].op \in HintOps /\ calls[s].wrote = "ok") ~> (calls[s].pc = "done")

\* C13: a failure of the preference-score update never reaches the caller of
\* a rating call: an addRating whose rating row was written does not end with
\* the error of the tag lookup or of updateUserPreferences.
C13_PreferenceFailureSwallowed ==
    \A s \in Slots :
        LET c == calls[s] IN
        (c.op = "addRating" /\ c.wrote = "ok" /\ c.pc = "done") =>
            c.res \notin {"error: event", "error: upsert"}

ReadOps == {"getForYou", "getExplore", "getAfterBooking", "getTripSuggestions"}

\* the engine's answer to call c is malformed: no data, or a listings field
\* that is not an array
Malformed(c) ==
    /\ c.engine.answered
    /\ ~c.engine.error
    /\ ~c.engine.data \/ c.engine.listings.type # "array"

\* C15: when the engine answers with no data or with a listings field that is
\* not an array, the gateway request fails with an error and yields no card
\* list.
C15_MalformedResponseFails ==
    \A s \in Slots :
        LET c == calls[s] IN
        (c.op \in ReadOps /\ Malformed(c)) =>
            /\ c.gateway = "threw"
            /\ c.cards = <<>>

\* the engine has answered with listings that are an object, and the gateway
\* request has thrown
C15_Witness ==
    \E s \in Slots :
        /\ calls[s].op \in ReadOps
        /\ calls[s].engine.answered
        /\ calls[s].engine.data
        /\ calls[s].engine.listings.type = "object"
        /\ calls[s].gateway = "threw"

\* C16: a failed gateway read reaches the caller of getForYou, getExplore,
\* getAfterBooking and getTripSuggestions as an error, not as the result of a
\* successful read without cards.
C16_ReadFailureDistinguishable ==
    \A s \in Slots :
        LET c == calls[s] IN
        (c.op \in ReadOps /\ c.pc = "done" /\ c.gateway = "threw") =>
            ~(c.res = "ok" /\ c.cards = <<>>)

\* C17: every gateway read invokes the engine exactly once, on success and on
\* failure alike.
C17_EngineInvokedOnce ==
    \A s \in Slots :
        calls[s].op \in ReadOps => calls[s].invocations = 1

\* a read has failed and has returned after its one invocation
C17_Witness ==
    \E s \in Slots :
        /\ calls[s].op \in ReadOps
        /\ calls[s].pc = "done"
        /\ calls[s].gateway = "threw"
        /\ calls[s].engine.error
        /\ calls[s].invocations = 1

\* C18: every card a gateway read returns for a well-formed response has all
\* the fixed card fields.
C18_CardsFullyPopulated ==
    \A s \in Slots :
        LET c == calls[s] IN
        (c.op \in ReadOps /\ c.pc = "done" /\ c.gateway = "returned") =>
            \A i \in 1..Len(c.cards) : c.cards[i].fields = CardFields

\* C19: every gateway read returns to its caller, even if the engine never
\* answers.
C19_ReadReturns ==
    \A s \in Slots :
        (calls[s].op \in ReadOps /\ calls[s].pc = "awaitEngine") ~> (calls[s].pc = "done")

\* the rows stored since trackBatch call c started
Persisted(c) == interactions (-) c.before

\* C20: trackBatch reports success only if every item of the batch was
\* persisted, and its result tells a partial application from a total
\* failure: true is returned with all the items stored, false with none of
\* them stored, and no result is returned with only some of them stored.
C20_BatchResultTellsOutcome ==
    \A s \in Slots :
        LET c == calls[s] IN
        (c.op = "trackBatch" /\ c.pc = "done") =>
            /\ c.res = "true" => Persisted(c) = FormattedInteractions(c.items)
            /\ c.res = "false" => Persisted(c) = EmptyBag
            /\ c.res \in {"true", "false"}

\* a batch of two items has failed and trackBatch has returned false
C20_Witness ==
    \E s \in Slots :
        /\ calls[s].op = "trackBatch"
        /\ Len(calls[s].items) = 2
        /\ calls[s].wrote = "error"
        /\ calls[s].res = "false"

\* C22: when recomputing the average fails after the rating write succeeded,
\* the rating row stays as written and the call does not report a failure,
\* for updateListingRating (the average rpc) and for addRating (the final
\* getEventById).
C22_AverageFailureKeepsRating ==
    \A s \in Slots :
        LET c == calls[s] IN
        (c.op \in RatingOps /\ c.pc = "done" /\ c.wrote = "ok" /\ c.avg = "error") =>
            /\ Succeeded(c)
            /\ c.op = "addRating" =>
                  \E i \in RatingRows(c.user, c.target) : eventRatings[i].rating = c.rating
            /\ c.op = "updateListingRating" =>
                  \E i \in ListingRatingRows(c.user, c.target) : ratings[i].rating = c.rating

\* C23: in a sequential history of updateUserPreferences calls every call that
\* completes has added its delta to the score it found, also when the read of
\* the existing score failed: the scores are the sums of the deltas applied.
C23_SequentialScoresAreSums ==
    \A s \in Slots :
        LET c == calls[s] IN
        (c.op = "updateUserPreferences" /\ Succeeded(c)) =>
            \A k \in PrefKeys :
                Score(k[1], k[2]) =
                    c.pre[k] + (IF k[1] = c.user THEN c.delta * Occurrences(c.tags, k[2]) ELSE 0)

\* C27: in a sequential history in which the lookup of the existing rating may
\* fail, at most one rating row exists per (user, event).
C27_OneRowPerPairSequential ==
    \A u \in Users, e \in Events : Cardinality(RatingRows(u, e)) <= 1

\* the ids of the rows of event_ratings for event e
RowsOfEvent(e) == {i \in 1..Len(eventRatings) : eventRatings[i].event = e}

\* C26: the average a successful addRating(u, e, r) returns is the mean of the
\* values of all the rating rows stored for e, the row of this call among them
\* (sum of the values = average * count), and the returned count is the number
\* of those rows.
C26_AverageIsMean ==
    \A s \in Slots :
        LET c == calls[s] IN
        (c.op = "addRating" /\ Succeeded(c)) =>
            /\ c.avgCount = Cardinality(RowsOfEvent(c.target))
            /\ c.avgSum = SumOver([i \in RowsOfEvent(c.target) |-> eventRatings[i].rating])
            /\ \E i \in RowsOfEvent(c.target) :
                  eventRatings[i].user = c.user /\ eventRatings[i].rating = c.rating

\* an addRating has returned the average of the ratings of two users
C26_Witness ==
    \E s \in Slots :
        /\ calls[s].op = "addRating"
        /\ Succeeded(calls[s])
        /\ calls[s].avgCount = 2
        /\ calls[s].avgSum = 7
        /\ \E i \in RowsOfEvent(calls[s].target) : eventRatings[i].user # calls[s].user

\* C29: addRating applies the preference delta only after the rating write
\* has succeeded: while the row is not written, and when the insert or update
\* fails, the caller has no identity or eventId / rating is missing, every
\* score is as it was when the call started.
C29_DeltaOnlyAfterWrite ==
    \A s \in Slots :
        LET c == calls[s] IN
        (c.op = "addRating" /\ c.wrote # "ok") =>
            /\ c.i = 0
            /\ \A k \in PrefKeys : Score(k[1], k[2]) = c.pre[k]

\* the insert of a rating has failed for a user who has scores already
C29_Witness ==
    \E s \in Slots :
        /\ calls[s].op = "addRating"
        /\ calls[s].res = "error: insert"
        /\ calls[s].wrote = "error"
        /\ \E t \in Tags : prefs[<<calls[s].user, t>>].present

\* C30: updateUserPreferences is not atomic across tags: when the write for
\* the k-th tag fails, the error is raised with the scores of the tags before
\* k increased by delta and those of tag k and the later tags unchanged; with
\* an empty tag list or a missing userId nothing is written.
C30_PartialUpdateOnFailure ==
    \A s \in Slots :
        LET c == calls[s] IN
        (c.op = "updateUserPreferences" /\ c.pc = "done") =>
            /\ c.res = "error: upsert" =>
                  \A j \in 1..Len(c.tags) :
                      Score(c.user, c.tags[j]) =
                          c.pre[<<c.user, c.tags[j]>>] + (IF j < c.i THEN c.delta ELSE 0)
            /\ c.i = 0 => \A k \in PrefKeys : Score(k[1], k[2]) = c.pre[k]

\* the number of stored interaction events of user u
EventsOf(u) ==
    LET rows == {r \in BagToSet(interactions) : r.user_id = u}
    IN SumOver([r \in rows |-> CopiesIn(r, interactions)])

\* C28: _insertInteraction issues the refresh hint only after the insert has
\* succeeded: a call that has issued a hint has persisted its event, a call
\* issues at most one hint, a call whose insert failed issues none, and every
\* step that issues a hint for a user issues one hint and stores one event of
\* that user.
C28_HintOnlyAfterInsert ==
    /\ [](\A s \in Slots :
            LET c == calls[s] IN
            c.op \in TrackOps =>
                /\ c.invocations <= 1
                /\ (c.hint # "none" \/ c.invocations = 1) =>
                       c.wrote = "ok" /\ BagIn(RowOf(c), interactions)
                /\ c.wrote = "error" => c.hint = "none" /\ c.invocations = 0)
    /\ [][\A u \in Users :
            LET h == [action |-> "refresh_user", user |-> u] IN
            CopiesIn(h, hints') > CopiesIn(h, hints) =>
                /\ CopiesIn(h, hints') = CopiesIn(h, hints) + 1
                /\ EventsOf(u)' = EventsOf(u) + 1]_vars

\* a track call has persisted its event and has one hint in flight
C28_Witness ==
    \E s \in Slots :
        /\ calls[s].op \in TrackOps
        /\ calls[s].wrote = "ok"
        /\ calls[s].hint = "pending"
        /\ calls[s].invocations = 1
        /\ BagIn([action |-> "refresh_user", user |-> calls[s].user], hints)

\* C21: recordInteraction never raises or rejects to its caller: it has
\* completed normally as soon as it was called, with the invocation still in
\* flight, and stays so whether the engine invocation succeeds, rejects or
\* throws synchronously.
C21_RecordInteractionNeverThrows ==
    \A s \in Slots :
        LET c == calls[s] IN
        c.op = "recordInteraction" =>
            /\ c.pc = "done"
            /\ c.res = "ok"
            /\ c.hint \in {"pending", "ok", "error", "throw", "sync throw"}

\* the invocation of a completed recordInteraction has been rejected
C21_Witness ==
    \E s \in Slots :
        /\ calls[s].op = "recordInteraction"
        /\ calls[s].pc = "done"
        /\ calls[s].res = "ok"
        /\ calls[s].hint = "throw"

\* the operations that run updateUserPreferences
PreferenceOps == {"updateUserPreferences", "addRating", "addToTrip"}

\* C24: preference scores are written only by updateUserPreferences: every
\* step that changes a row of user_preferences is the upsert of
\* updateUserPreferences, called directly or by addRating or addToTrip, and it
\* writes the one score of the tag the loop is at; no step of any other
\* operation changes a score.
C24_OnlyUpdateUserPreferencesWritesScores ==
    [][prefs' # prefs =>
          \E s \in Slots :
              LET c == calls[s] IN
              /\ c.op \in PreferenceOps
              /\ c.pc = "upsertPreference"
              /\ calls'[s] # c
              /\ prefs' = [prefs EXCEPT ![<<c.user, c.tags[c.i]>>] =
                                [present |-> TRUE, score |-> c.newScore]]]_vars

\* an addToTrip has returned true with the score of the event's first tag
\* raised by three quarters of a point and its row stored in user_trips
C24_Witness ==
    \E s \in Slots :
        /\ calls[s].op = "addToTrip"
        /\ calls[s].pc = "done"
        /\ calls[s].res = "true"
        /\ BagIn([user_id |-> calls[s].user, event_id |-> calls[s].target], userTrips)
        /\ Score(calls[s].user, "t1") = calls[s].pre[<<calls[s].user, "t1">>] + TripDelta
        /\ TripDelta = 3

\* C25: a stored interaction event is never modified and is removed only by
\* clearUserInteractions of its own user: a step that takes a row out of
\* user_interactions is the delete of a clearUserInteractions(u) with u the
\* row's user, and that delete removes every row of u and leaves the rows of
\* every other user as they were; no other step removes or changes a row.
C25_EventsRemovedOnlyByOwnClear ==
    [][\A r \in BagToSet(interactions) :
          CopiesIn(r, interactions') < CopiesIn(r, interactions) =>
              \E s \in Slots :
                  LET c == calls[s] IN
                  /\ c.op = "clearUserInteractions"
                  /\ c.pc = "deleteInteractions"
                  /\ calls'[s].res = "true"
                  /\ c.user = r.user_id
                  /\ BagToSet(interactions') \subseteq BagToSet(interactions)
                  /\ \A x \in BagToSet(interactions) :
                        CopiesIn(x, interactions') =
                            IF x.user_id = c.user THEN 0 ELSE CopiesIn(x, interactions)]_vars

\* a clearUserInteractions(u) has returned true: the table held rows of u and
\* of another user, and now holds the other user's rows only
C25_Witness ==
    \E s \in Slots :
        LET c == calls[s] IN
        /\ c.op = "clearUserInteractions"
        /\ c.pc = "done"
        /\ c.res = "true"
        /\ \E r \in BagToSet(c.before) : r.user_id = c.user
        /\ \E r \in BagToSet(c.before) : r.user_id # c.user
        /\ interactions # EmptyBag
        /\ \A r \in BagToSet(interactions) :
              r.user_id # c.user /\ CopiesIn(r, interactions) = CopiesIn(r, c.before)
====
